---- MODULE Spec2Model ----
(***************************************************************************)
(* Data_Vision_Pro: the Dashboard Builder component (array discovery,      *)
(* field inference, chart auto-configuration, aggregation) and the API     *)
(* tester backend (makeRequest, apiHistory mutations).                     *)
(*                                                                         *)
(* JavaScript strings are sequences of one-character strings, so that      *)
(* concatenation, template literals, JSON.stringify, Number() and the      *)
(* date pattern are computed character by character.                       *)
(***************************************************************************)
EXTENDS Integers, Sequences, FiniteSets

VARIABLES
    data,           \* DashboardBuilder prop `data` (a JSON value)
    mounted,        \* the effects of the first render have run
    dateParseImpl,  \* the strings the engine's Date.parse accepts beyond the ISO format
    arrayOptions,   \* useState: [{path, arr}]
    arrayPath,      \* useState: selected path
    fields,         \* useState: FieldInfo[]
    chartConfig,    \* useState: ChartConfig
    processedData,  \* useState: rows handed to the chart
    suggestions,    \* useState: suggestion list
    autoConfig,     \* the value suggestChartConfig returned in the last run of the arrayPath effect
    apiHistory,     \* Convex table apiHistory
    nextId,         \* the next document id the database hands out (ids grow with creation time)
    now,            \* Date.now()
    outbound,       \* HTTP requests that left the makeRequest action
    lastResult,     \* what the last backend function returned or threw
    userProfiles,   \* Convex table userProfiles, by userId
    otpCodes,       \* Convex table otpCodes, in creation order
    formEmail,      \* AuthForm: useState email
    isLockedHeld,   \* AuthForm: the useQuery(isAccountLocked) result the form holds
    otpVerified,    \* the <<user, type>> pairs for which verifyOTP has returned success
    failedSince,    \* per user: failed login attempts recorded since the last recorded success
    lockedUntil     \* per user: 15 minutes after the last call that brought loginAttempts to 5 or more

dashVars == <<data, dateParseImpl, mounted, arrayOptions, arrayPath, fields, chartConfig,
              processedData, suggestions, autoConfig>>
apiVars == <<apiHistory, nextId, now, outbound, lastResult>>
authVars == <<userProfiles, otpCodes, formEmail, isLockedHeld, otpVerified, failedSince,
              lockedUntil>>
vars == <<dashVars, apiVars, authVars>>

(***************************************************************************)
(* JavaScript values.  Every value is a record of the same shape so that   *)
(* values of different types can be compared: k is the type tag, n the     *)
(* number (or 0/1 for a boolean), s the string, ks/c the keys and the      *)
(* children of an object (in enumeration order), c the elements of an      *)
(* array.                                                                  *)
(***************************************************************************)
Undef == [k |-> "undefined", n |-> 0, s |-> <<>>, ks |-> <<>>, c |-> <<>>]
Null == [k |-> "null", n |-> 0, s |-> <<>>, ks |-> <<>>, c |-> <<>>]
Bool(b) == [k |-> "boolean", n |-> IF b THEN 1 ELSE 0, s |-> <<>>, ks |-> <<>>, c |-> <<>>]
Num(i) == [k |-> "number", n |-> i, s |-> <<>>, ks |-> <<>>, c |-> <<>>]
\* NaN is a number; its s field tells it from the integers
NaN == [k |-> "number", n |-> 0, s |-> <<"N", "a", "N">>, ks |-> <<>>, c |-> <<>>]
IsNaN(v) == v.k = "number" /\ v.s # <<>>
Str(t) == [k |-> "string", n |-> 0, s |-> t, ks |-> <<>>, c |-> <<>>]
Arr(items) == [k |-> "array", n |-> 0, s |-> <<>>, ks |-> <<>>, c |-> items]
Obj(keys, vals) == [k |-> "object", n |-> 0, s |-> <<>>, ks |-> keys, c |-> vals]

\* x, for a set {x}: binds a value that is computed once and used often
TheOnly(S) == CHOOSE x \in S : TRUE

\* Array.isArray(v)
IsArray(v) == v.k = "array"
\* typeof v === "object" (arrays and null included)
TypeofObject(v) == v.k \in {"array", "object", "null"}

(***************************************************************************)
(* Characters and strings                                                  *)
(***************************************************************************)
DigitChars == <<"0", "1", "2", "3", "4", "5", "6", "7", "8", "9">>
IsDigit(ch) == \E i \in 1..Len(DigitChars) : DigitChars[i] = ch
DigitVal(ch) == (CHOOSE i \in 1..Len(DigitChars) : DigitChars[i] = ch) - 1

RECURSIVE NatToStr(_)
NatToStr(i) ==
    IF i < 10 THEN <<DigitChars[i + 1]>>
    ELSE NatToStr(i \div 10) \o <<DigitChars[(i % 10) + 1]>>

\* Number.prototype.toString for an integer
NumToStr(i) == IF i < 0 THEN <<"-">> \o NatToStr(0 - i) ELSE NatToStr(i)

\* String(v) as a template literal `${v}` computes it, for a primitive v
TemplateString(v) ==
    CASE v.k = "string" -> v.s
      [] v.k = "number" -> IF IsNaN(v) THEN v.s ELSE NumToStr(v.n)
      [] v.k = "boolean" -> IF v.n = 1 THEN <<"t", "r", "u", "e">> ELSE <<"f", "a", "l", "s", "e">>
      [] v.k = "null" -> <<"n", "u", "l", "l">>
      [] OTHER -> <<"u", "n", "d", "e", "f", "i", "n", "e", "d">>

RECURSIVE JoinWith(_, _)
JoinWith(parts, sep) ==
    IF parts = <<>> THEN <<>>
    ELSE IF Len(parts) = 1 THEN parts[1]
    ELSE parts[1] \o sep \o JoinWith(Tail(parts), sep)

\* JSON.stringify(v)
RECURSIVE JsonStringify(_)
JsonStringify(v) ==
    CASE v.k = "string" -> <<"\"">> \o v.s \o <<"\"">>
      [] v.k = "number" -> NumToStr(v.n)
      [] v.k = "boolean" -> TemplateString(v)
      [] v.k = "array" ->
            <<"[">> \o JoinWith([i \in 1..Len(v.c) |-> JsonStringify(v.c[i])], <<",">>) \o <<"]">>
      [] v.k = "object" ->
            <<"{">> \o JoinWith([i \in 1..Len(v.c) |->
                        <<"\"">> \o v.ks[i] \o <<"\"", ":">> \o JsonStringify(v.c[i])], <<",">>)
                    \o <<"}">>
      [] OTHER -> <<"n", "u", "l", "l">>

\* String.prototype.trim on the white space of the model's alphabet
RECURSIVE TrimLeft(_)
TrimLeft(t) == IF t # <<>> /\ Head(t) = " " THEN TrimLeft(Tail(t)) ELSE t
RECURSIVE TrimRight(_)
TrimRight(t) ==
    IF t # <<>> /\ t[Len(t)] = " " THEN TrimRight(SubSeq(t, 1, Len(t) - 1)) ELSE t

AllDigits(t) == t # <<>> /\ \A i \in 1..Len(t) : IsDigit(t[i])

RECURSIVE DigitsVal(_)
DigitsVal(t) ==
    IF t = <<>> THEN 0 ELSE DigitsVal(SubSeq(t, 1, Len(t) - 1)) * 10 + DigitVal(t[Len(t)])

\* !isNaN(Number(t)) for a string t over the model's alphabet (no "+", ".",
\* exponent, radix prefix or "Infinity"): white space is trimmed, the empty
\* string is 0, otherwise an optionally negated run of decimal digits.
IsNumericString(t) ==
    LET u == TrimRight(TrimLeft(t)) IN
    \/ u = <<>>
    \/ AllDigits(u)
    \/ Head(u) = "-" /\ AllDigits(Tail(u))

\* Number(t) for such a string
StringToNumber(t) ==
    LET u == TrimRight(TrimLeft(t)) IN
    IF u = <<>> THEN 0
    ELSE IF Head(u) = "-" THEN 0 - DigitsVal(Tail(u))
    ELSE DigitsVal(u)

(***************************************************************************)
(* The date pattern of detectFieldType and Date.parse                      *)
(***************************************************************************)
\* A pattern is a sequence of tokens: "#" is \d, any other token is itself.
MatchesAt(t, pos, pat) ==
    /\ pos + Len(pat) - 1 <= Len(t)
    /\ \A i \in 1..Len(pat) :
          IF pat[i] = "#" THEN IsDigit(t[pos + i - 1]) ELSE t[pos + i - 1] = pat[i]

\* ^\d{4}-\d{2}-\d{2}
DatePatIso == <<"#", "#", "#", "#", "-", "#", "#", "-", "#", "#">>
\* ^\d{2}\/\d{2}\/\d{4}
DatePatSlash == <<"#", "#", "/", "#", "#", "/", "#", "#", "#", "#">>
\* \d{4}-\d{2}-\d{2}T\d{2}:\d{2}:\d{2}   (not anchored)
DatePatStamp == DatePatIso \o <<"T", "#", "#", ":", "#", "#", ":", "#", "#">>

\* dateRegex.test(t)
DateRegexTest(t) ==
    \/ MatchesAt(t, 1, DatePatIso)
    \/ MatchesAt(t, 1, DatePatSlash)
    \/ \E pos \in 1..Len(t) : MatchesAt(t, pos, DatePatStamp)

\* The date-only forms of the ECMAScript date-time string format that the
\* pattern above does not cover: YYYY and YYYY-MM with a month 01..12.
IsoDateOnly(t) ==
    \/ Len(t) = 4 /\ AllDigits(t)
    \/ /\ Len(t) = 7
       /\ MatchesAt(t, 1, <<"#", "#", "#", "#", "-", "#", "#">>)
       /\ DigitsVal(SubSeq(t, 6, 7)) \in 1..12
    \/ /\ Len(t) = 10
       /\ MatchesAt(t, 1, DatePatIso)
       /\ DigitsVal(SubSeq(t, 6, 7)) \in 1..12
       /\ DigitsVal(SubSeq(t, 9, 10)) \in 1..31

\* !isNaN(Date.parse(t)).  A string in the ISO format parses on every
\* engine; for any other string the result is implementation-defined, and
\* engine is the set of such strings the running engine accepts.
DateParseOk(t, engine) == IsoDateOnly(t) \/ t \in engine

(***************************************************************************)
(* Plain JavaScript objects built by the code: a sequence of [key, val]    *)
(* in property enumeration order (array-index keys ascending, then the     *)
(* other keys in insertion order).                                         *)
(***************************************************************************)
IsArrayIndex(key) ==
    /\ AllDigits(key)
    /\ Len(key) <= 8
    /\ (Len(key) > 1 => key[1] # "0")

HasKey(o, key) == \E i \in 1..Len(o) : o[i].key = key

\* o[key]
Get(o, key) ==
    IF HasKey(o, key) THEN o[CHOOSE i \in 1..Len(o) : o[i].key = key].val ELSE Undef

\* the position a new key takes in the enumeration order
InsertPos(o, key) ==
    IF IsArrayIndex(key)
    THEN Cardinality({i \in 1..Len(o) :
                        IsArrayIndex(o[i].key) /\ DigitsVal(o[i].key) < DigitsVal(key)}) + 1
    ELSE Len(o) + 1

\* o[key] = val
Put(o, key, val) ==
    IF HasKey(o, key)
    THEN [i \in 1..Len(o) |-> IF o[i].key = key THEN [key |-> key, val |-> val] ELSE o[i]]
    ELSE LET p == InsertPos(o, key) IN
         SubSeq(o, 1, p - 1) \o <<[key |-> key, val |-> val]>> \o SubSeq(o, p, Len(o))

\* Object.assign(o, src)
RECURSIVE Assign(_, _)
Assign(o, src) ==
    IF src = <<>> THEN o ELSE Assign(Put(o, src[1].key, src[1].val), Tail(src))

\* Object.values(o)
Values(o) == [i \in 1..Len(o) |-> o[i].val]

\* the own enumerable properties `for (const key in v)` visits, as [key, val]
OwnEntries(v) ==
    CASE v.k = "object" -> [i \in 1..Len(v.c) |-> [key |-> v.ks[i], val |-> v.c[i]]]
      [] v.k = "array" -> [i \in 1..Len(v.c) |-> [key |-> NatToStr(i - 1), val |-> v.c[i]]]
      [] v.k = "string" -> [i \in 1..Len(v.s) |-> [key |-> NatToStr(i - 1), val |-> Str(<<v.s[i]>>)]]
      [] OTHER -> <<>>

\* prefix ? `${prefix}.${key}` : key
DottedKey(prefix, key) == IF prefix # <<>> THEN prefix \o <<".">> \o key ELSE key

(***************************************************************************)
(* findArrays                                                              *)
(***************************************************************************)
RootPath == <<"r", "o", "o", "t">>

RECURSIVE findArraysIn(_, _, _)
RECURSIVE findArrays(_, _)
\* the for..in loop of findArrays over the entries from position i on
findArraysIn(entries, i, prefix) ==
    IF i > Len(entries) THEN <<>>
    ELSE findArrays(entries[i].val, DottedKey(prefix, entries[i].key))
            \o findArraysIn(entries, i + 1, prefix)

findArrays(obj, prefix) ==
    IF IsArray(obj)
    THEN <<[path |-> IF prefix # <<>> THEN prefix ELSE RootPath, arr |-> obj]>>
    ELSE IF obj.k = "object" THEN findArraysIn(OwnEntries(obj), 1, prefix)
    ELSE <<>>

(***************************************************************************)
(* flattenData, detectFieldType, analyzeFields                             *)
(***************************************************************************)
RECURSIVE flattenFrom(_, _, _, _)
RECURSIVE flattenData(_, _)
\* the loop of flattenData with an array value kept as it is
flattenFromKeepingArrays(entries, i, prefix, flattened) ==
    IF i > Len(entries) THEN flattened
    ELSE LET e == entries[i]
             newKey == DottedKey(prefix, e.key)
             next == CASE e.val.k = "object" -> Assign(flattened, flattenData(e.val, newKey))
                       [] OTHER -> Put(flattened, newKey, e.val)
         IN flattenFrom(entries, i + 1, prefix, next)

\* the for..in loop of flattenData over the entries from position i on,
\* `flattened` being the object built so far
flattenFrom(entries, i, prefix, flattened) ==
    IF i > Len(entries) THEN flattened
    ELSE LET e == entries[i]
             newKey == DottedKey(prefix, e.key)
             next == CASE e.val.k \in {"null", "undefined"} -> Put(flattened, newKey, e.val)
                       [] IsArray(e.val) -> Put(flattened, newKey, Str(JsonStringify(e.val)))
                       [] e.val.k = "object" -> Assign(flattened, flattenData(e.val, newKey))
                       [] OTHER -> Put(flattened, newKey, e.val)
         IN flattenFrom(entries, i + 1, prefix, next)

flattenData(obj, prefix) == flattenFrom(OwnEntries(obj), 1, prefix, <<>>)

\* detectFieldType with the date test before the number test
detectFieldTypeDateFirst(values, engine) ==
    LET firstValue == values[1] IN
    IF IsArray(firstValue) THEN "array"
    ELSE IF firstValue.k = "boolean" THEN "boolean"
    ELSE IF TypeofObject(firstValue) THEN "object"
    ELSE IF /\ firstValue.k = "string"
            /\ (DateRegexTest(firstValue.s) \/ DateParseOk(firstValue.s, engine))
         THEN "date"
    ELSE IF \/ firstValue.k = "number"
            \/ firstValue.k = "string" /\ IsNumericString(firstValue.s)
         THEN "number"
    ELSE "string"

detectFieldType(values, engine) ==
    LET firstValue == values[1] IN
    IF IsArray(firstValue) THEN "array"
    ELSE IF firstValue.k = "boolean" THEN "boolean"
    ELSE IF TypeofObject(firstValue) THEN "object"
    ELSE IF \/ firstValue.k = "number"
            \/ firstValue.k = "string" /\ IsNumericString(firstValue.s)
         THEN "number"
    ELSE IF /\ firstValue.k = "string"
            /\ (DateRegexTest(firstValue.s) \/ DateParseOk(firstValue.s, engine))
         THEN "date"
    ELSE "string"

\* data.slice(0, 5) keeps at most this many records
SampleSize == 5

\* the sample without the slice: every record
sampleDataOfEveryRecord(arr) == IF IsArray(arr) THEN arr.c ELSE <<arr>>

\* Array.isArray(data) ? data.slice(0, 5) : [data]
sampleDataOf(arr) ==
    IF IsArray(arr)
    THEN SubSeq(arr.c, 1, IF Len(arr.c) < SampleSize THEN Len(arr.c) ELSE SampleSize)
    ELSE <<arr>>

\* allKeys.add(key) for every key of `keys`, in order (a Set keeps insertion order)
RECURSIVE AddAll(_, _)
AddAll(allKeys, keys) ==
    IF keys = <<>> THEN allKeys
    ELSE AddAll(IF \E i \in 1..Len(allKeys) : allKeys[i] = keys[1]
                THEN allKeys ELSE Append(allKeys, keys[1]),
                Tail(keys))

\* the first forEach of analyzeFields
RECURSIVE collectKeys(_, _, _)
collectKeys(sampleData, i, allKeys) ==
    IF i > Len(sampleData) THEN allKeys
    ELSE LET item == sampleData[i]
             flat == flattenData(item, <<>>)
         IN collectKeys(sampleData, i + 1,
                IF TypeofObject(item) /\ item.k # "null"
                THEN AddAll(allKeys, [j \in 1..Len(flat) |-> flat[j].key])
                ELSE allKeys)

\* Array.prototype.filter: the elements at the positions `kept`, in order
Filter(seq, kept) ==
    [j \in 1..Cardinality(kept) |->
        seq[CHOOSE i \in kept : Cardinality({h \in kept : h <= i}) = j]]

\* sampleData.map(item => flattenData(item)[key]).filter(val => val !== undefined && val !== null)
sampleValuesOf(sampleData, key) ==
    TheOnly({ Filter(mapped, {i \in 1..Len(mapped) : mapped[i].k \notin {"undefined", "null"}})
              : mapped \in {[i \in 1..Len(sampleData) |->
                                Get(flattenData(sampleData[i], <<>>), key)]} })

\* a.localeCompare(b) < 0 for names over ".", digits and lower-case letters:
\* the root collation puts punctuation before digits before letters
CollationOrder ==
    <<".", "_", "0", "1", "2", "3", "4", "5", "6", "7", "8", "9",
      "a", "b", "c", "d", "e", "f", "g", "h", "i", "j", "k", "l", "m",
      "n", "o", "p", "q", "r", "s", "t", "u", "v", "w", "x", "y", "z">>
CharRank(ch) == CHOOSE i \in 1..Len(CollationOrder) : CollationOrder[i] = ch

RECURSIVE NameBefore(_, _)
NameBefore(a, b) ==
    IF a = <<>> THEN b # <<>>
    ELSE IF b = <<>> THEN FALSE
    ELSE IF a[1] = b[1] THEN NameBefore(Tail(a), Tail(b))
    ELSE CharRank(a[1]) < CharRank(b[1])

\* fields.sort((a, b) => a.name.localeCompare(b.name))
RECURSIVE sortByName(_)
sortByName(fs) ==
    IF fs = <<>> THEN <<>>
    ELSE LET rest == sortByName(Tail(fs))
             before == Cardinality({i \in 1..Len(rest) : ~NameBefore(fs[1].name, rest[i].name)})
         IN SubSeq(rest, 1, before) \o <<fs[1]>> \o SubSeq(rest, before + 1, Len(rest))

\* the second forEach of analyzeFields
RECURSIVE fieldInfos(_, _, _, _)
fieldInfos(sampleData, allKeys, i, engine) ==
    IF i > Len(allKeys) THEN <<>>
    ELSE LET sampleValues == sampleValuesOf(sampleData, allKeys[i])
         IN (IF Len(sampleValues) > 0
             THEN <<[name |-> allKeys[i],
                     type |-> detectFieldType(sampleValues, engine),
                     sampleValue |-> sampleValues[1]]>>
             ELSE <<>>) \o fieldInfos(sampleData, allKeys, i + 1, engine)

analyzeFields(arr, engine) ==
    LET sampleData == sampleDataOf(arr)
        allKeys == collectKeys(sampleData, 1, <<>>)
    IN sortByName(fieldInfos(sampleData, allKeys, 1, engine))

(***************************************************************************)
(* suggestChartConfig                                                      *)
(***************************************************************************)
NoConfig == [type |-> "none", xAxis |-> <<>>, yAxis |-> <<>>, groupBy |-> <<>>, title |-> <<>>]

fieldsOfType(fs, type) ==
    Filter(fs, {i \in 1..Len(fs) : fs[i].type = type})

\* yAxis ? `${yAxis} by ${xAxis}` : `Data Analysis: ${xAxis}`
suggestedTitle(xAxis, yAxis) ==
    IF yAxis # <<>> THEN yAxis \o <<" ", "b", "y", " ">> \o xAxis
    ELSE <<"D", "a", "t", "a", " ", "A", "n", "a", "l", "y", "s", "i", "s", ":", " ">> \o xAxis

\* suggestChartConfig with type "line" for every list that has a date field
suggestChartConfigLineForDates(fs) ==
    LET stringFields == fieldsOfType(fs, "string")
        numberFields == fieldsOfType(fs, "number")
        dateFields == fieldsOfType(fs, "date")
        yAxis == IF Len(numberFields) > 0 THEN numberFields[1].name ELSE <<>>
        xAxis == IF Len(dateFields) > 0 THEN dateFields[1].name
                 ELSE IF Len(stringFields) > 0 THEN stringFields[1].name
                 ELSE IF Len(numberFields) > 1 THEN numberFields[2].name
                 ELSE IF Len(numberFields) > 0 THEN numberFields[1].name
                 ELSE <<>>
        type == IF Len(dateFields) > 0 THEN "line"
                ELSE IF Len(numberFields) > 0 THEN "bar" ELSE "table"
    IN IF Len(numberFields) = 0 /\ Len(stringFields) = 0 THEN NoConfig
       ELSE [type |-> type, xAxis |-> xAxis, yAxis |-> yAxis, groupBy |-> <<>>,
             title |-> suggestedTitle(xAxis, yAxis)]

\* suggestChartConfig with the first number field on both axes when there
\* are only number fields
suggestChartConfigSameAxes(fs) ==
    LET stringFields == fieldsOfType(fs, "string")
        numberFields == fieldsOfType(fs, "number")
        dateFields == fieldsOfType(fs, "date")
        yAxis == IF Len(numberFields) > 0 THEN numberFields[1].name ELSE <<>>
        xAxis == IF Len(dateFields) > 0 THEN dateFields[1].name
                 ELSE IF Len(stringFields) > 0 THEN stringFields[1].name
                 ELSE IF Len(numberFields) > 0 THEN numberFields[1].name
                 ELSE <<>>
        type == IF Len(dateFields) > 0 /\ Len(numberFields) > 0 THEN "line"
                ELSE IF Len(numberFields) > 0 THEN "bar" ELSE "table"
    IN IF Len(numberFields) = 0 /\ Len(stringFields) = 0 THEN NoConfig
       ELSE [type |-> type, xAxis |-> xAxis, yAxis |-> yAxis, groupBy |-> <<>>,
             title |-> suggestedTitle(xAxis, yAxis)]

\* NoConfig stands for null; groupBy <<>> for an absent groupBy
suggestChartConfig(fs) ==
    LET stringFields == fieldsOfType(fs, "string")
        numberFields == fieldsOfType(fs, "number")
        dateFields == fieldsOfType(fs, "date")
        yAxis == IF Len(numberFields) > 0 THEN numberFields[1].name ELSE <<>>
        type0 == IF Len(numberFields) > 0 THEN "bar" ELSE "table"
        xAxis == IF Len(dateFields) > 0 THEN dateFields[1].name
                 ELSE IF Len(stringFields) > 0 THEN stringFields[1].name
                 ELSE IF Len(numberFields) > 1 THEN numberFields[2].name
                 ELSE IF Len(numberFields) > 0 THEN numberFields[1].name
                 ELSE <<>>
        type == IF Len(dateFields) > 0 /\ Len(numberFields) > 0 THEN "line" ELSE type0
    IN IF Len(numberFields) = 0 /\ Len(stringFields) = 0 THEN NoConfig
       ELSE [type |-> type, xAxis |-> xAxis, yAxis |-> yAxis, groupBy |-> <<>>,
             title |-> suggestedTitle(xAxis, yAxis)]

(***************************************************************************)
(* processDataForChart                                                     *)
(***************************************************************************)
CountKey == <<"c", "o", "u", "n", "t">>
NameKey == <<"n", "a", "m", "e">>
ValueKey == <<"v", "a", "l", "u", "e">>

\* the callback of data.map: one result object per record
projectItem(item, config) ==
    LET flattened == flattenData(item, <<>>)
        raw == Get(flattened, config.yAxis)
        yValue == IF raw.k = "string" /\ IsNumericString(raw.s)
                  THEN Num(StringToNumber(raw.s)) ELSE raw
        r1 == Put(<<>>, config.xAxis, Get(flattened, config.xAxis))
        r2 == Put(r1, config.yAxis, yValue)
    IN IF config.groupBy # <<>> THEN Put(r2, config.groupBy, Get(flattened, config.groupBy))
       ELSE r2

\* the callback of .filter
keepItem(item, config) ==
    /\ Get(item, config.xAxis).k # "undefined"
    /\ Get(item, config.yAxis).k # "undefined"
    /\ Get(item, config.yAxis).k = "number"

\* data.map(...).filter(...), data being wrapped in an array when it is not one
projectedRows(arr, config) ==
    LET items == IF IsArray(arr) THEN arr.c ELSE <<arr>>
    IN TheOnly({ Filter(mapped, {i \in 1..Len(mapped) : keepItem(mapped[i], config)})
                 : mapped \in {[i \in 1..Len(items) |-> projectItem(items[i], config)]} })

\* a + b on two primitive values: concatenation when either is a string,
\* else the sum of the operands as numbers (null is 0, undefined is NaN)
AddValues(a, b) ==
    IF a.k = "string" \/ b.k = "string" THEN Str(TemplateString(a) \o TemplateString(b))
    ELSE IF IsNaN(a) \/ IsNaN(b) \/ a.k = "undefined" \/ b.k = "undefined" THEN NaN
    ELSE Num(a.n + b.n)

\* the reducer of the groupBy branch
groupStep(acc, item, config) ==
    LET groupByValue == IF config.groupBy # <<>> THEN Get(item, config.groupBy) ELSE Str(<<>>)
        key == TemplateString(Get(item, config.xAxis)) \o <<"_">> \o TemplateString(groupByValue)
        r1 == Put(<<>>, config.xAxis, Get(item, config.xAxis))
        r2 == Put(r1, config.yAxis, Num(0))
        r3 == Put(r2, CountKey, Num(0))
        resultItem == IF config.groupBy # <<>> THEN Put(r3, config.groupBy, groupByValue) ELSE r3
        acc1 == IF ~HasKey(acc, key) THEN Put(acc, key, resultItem) ELSE acc
        row == Get(acc1, key)
        row1 == Put(row, config.yAxis, AddValues(Get(row, config.yAxis), Get(item, config.yAxis)))
        row2 == Put(row1, CountKey, AddValues(Get(row1, CountKey), Num(1)))
    IN Put(acc1, key, row2)

\* the reducer of the pie branch
pieStep(acc, item, config) ==
    LET key == TemplateString(Get(item, config.xAxis))
        acc1 == IF ~HasKey(acc, key)
                THEN Put(acc, key, Put(Put(<<>>, NameKey, Get(item, config.xAxis)), ValueKey, Num(0)))
                ELSE acc
        row == Get(acc1, key)
    IN Put(acc1, key, Put(row, ValueKey, AddValues(Get(row, ValueKey), Get(item, config.yAxis))))

\* processed.reduce(..., {}) of the groupBy branch
RECURSIVE groupReduce(_, _, _)
groupReduce(acc, items, config) ==
    IF items = <<>> THEN acc
    ELSE groupReduce(groupStep(acc, items[1], config), Tail(items), config)

\* processed.reduce(..., {}) of the pie branch
RECURSIVE pieReduce(_, _, _)
pieReduce(acc, items, config) ==
    IF items = <<>> THEN acc
    ELSE pieReduce(pieStep(acc, items[1], config), Tail(items), config)

processDataForChart(arr, config) ==
    TheOnly({ IF config.groupBy # <<>> THEN Values(groupReduce(<<>>, processed, config))
              ELSE IF config.type = "pie" THEN Values(pieReduce(<<>>, processed, config))
              ELSE processed
              : processed \in {projectedRows(arr, config)} })

(***************************************************************************)
(* generateSuggestions; shown is the processedData of the render whose     *)
(* effect calls it                                                         *)
(***************************************************************************)
LargeDataset == 10

generateSuggestions(fs, config, shown) ==
    LET numberFields == fieldsOfType(fs, "number")
        dateFields == fieldsOfType(fs, "date")
        stringFields == fieldsOfType(fs, "string")
    IN (IF Len(dateFields) > 0 /\ config.type # "line" THEN <<"try-line">> ELSE <<>>)
       \o (IF Len(stringFields) > 0 /\ Len(numberFields) > 1 /\ config.groupBy = <<>>
           THEN <<"group-by">> ELSE <<>>)
       \o (IF config.type = "bar" /\ Len(shown) > LargeDataset THEN <<"line-for-large">> ELSE <<>>)
       \o (IF Len(stringFields) > 0 /\ config.type # "pie" THEN <<"try-pie">> ELSE <<>>)

(***************************************************************************)
(* The JSON documents the component is opened on                           *)
(***************************************************************************)
MaxRows == 2

Kd == <<"d">>
Kn == <<"n">>
Km == <<"m">>
Ks == <<"s">>
Kg == <<"g">>
Kt == <<"t">>
Ko == <<"o">>
Kk == <<"k">>
Kq == <<"q">>
Ke == <<"e">>
Ku == <<"u">>
Kv == <<"v">>
Kw == <<"w">>
Kz == <<"z">>
Kb == <<"b">>

S_a == <<"a">>
S_a_c == <<"a", "_", "c">>
S_g == <<"g">>
S_c_g == <<"c", "_", "g">>
S_isoDay == <<"2", "0", "2", "4", "-", "0", "1", "-", "0", "2">>
S_isoMonth == <<"2", "0", "2", "4", "-", "0", "1">>
S_digits == <<"2", "0", "2", "4", "0", "1", "0", "2">>
S_words == <<"J", "a", "n", " ", "1">>
S_three == <<"3">>
S_year == <<"2", "0", "2", "4">>

\* the record shapes the generated arrays draw from
RowPool ==
    << Obj(<<Ks, Kg, Kn>>, <<Str(S_a_c), Str(S_g), Num(1)>>),
       Obj(<<Ks, Kg, Kn>>, <<Str(S_a), Str(S_c_g), Num(2)>>),
       Obj(<<Ks, Kg, Kn, CountKey>>, <<Str(S_a), Str(S_c_g), Str(S_three), Num(2)>>) >>

RECURSIVE RowSeqs(_)
RowSeqs(len) ==
    IF len = 0 THEN {<<>>}
    ELSE {Append(rows, RowPool[i]) : rows \in RowSeqs(len - 1), i \in 1..Len(RowPool)}

GeneratedDocs == {Arr(rows) : rows \in UNION {RowSeqs(len) : len \in 0..MaxRows}}

RowDate == Obj(<<Kd, Kn>>, <<Str(S_isoDay), Null>>)
RowTwoNumbers == Obj(<<Kn, Km>>, <<Num(1), Num(2)>>)

\* an array of arrays
DocArrayInArray == Arr(<<Arr(<<Num(1)>>), Arr(<<Num(2)>>)>>)
\* an array held by an object that is an array element
DocArrayInElement ==
    Arr(<<Obj(<<Ks, Kt>>, <<Str(S_a), Arr(<<Obj(<<Kn>>, <<Num(1)>>)>>)>>)>>)
\* two arrays under an object, at different depths
DocTwoArrays ==
    Obj(<<Kd, Km>>,
        <<Arr(<<RowPool[1], RowPool[3]>>),
          Obj(<<Kt>>, <<Arr(<<RowDate, RowTwoNumbers>>)>>)>>)
\* no array at all
DocNoArray == Obj(<<Ks>>, <<Str(S_a)>>)
\* records whose values are an array, nested objects and a boolean
DocStructured ==
    Arr(<<Obj(<<Kt, Ko, Ke, Kb>>,
              <<Arr(<<Num(1)>>), Obj(<<Kk>>, <<Num(1)>>), Obj(<<>>, <<>>), Bool(TRUE)>>)>>)
\* strings: free text with a day number, digits only, plain
DocStringsA == Arr(<<Obj(<<Kw, Ku, Ks>>, <<Str(S_words), Str(S_digits), Str(S_a)>>)>>)
\* strings: year-month, empty, full ISO day, year
DocStringsB ==
    Arr(<<Obj(<<Kv, Kz, Kd, Ku>>,
              <<Str(S_isoMonth), Str(<<>>), Str(S_isoDay), Str(S_year)>>)>>)
\* a date field and nothing else that is reported
DocDateOnly == Arr(<<RowDate>>)
\* a date field and a string field, no number
DocDateString == Arr(<<Obj(<<Kd, Ks>>, <<Str(S_isoDay), Str(S_a)>>)>>)
\* number fields only
DocTwoNumbers == Arr(<<RowTwoNumbers>>)
\* six records: the sixth brings a new key, a first value for q and a number for n
DocSixRecords ==
    Arr(<<Obj(<<Kn, Kq>>, <<Null, Null>>),
          Obj(<<Ks>>, <<Str(S_a)>>),
          Obj(<<Kn>>, <<Null>>),
          Obj(<<Ks>>, <<Str(S_a)>>),
          Obj(<<Kn>>, <<Str(S_a)>>),
          Obj(<<Kn, Km, Kq>>, <<Num(1), Num(2), Num(3)>>)>>)

DataPool ==
    GeneratedDocs \cup {DocArrayInArray, DocArrayInElement, DocTwoArrays, DocNoArray,
                        DocStructured, DocStringsA, DocStringsB, DocDateOnly,
                        DocDateString, DocTwoNumbers, DocSixRecords}

\* The strings of the pool on which Date.parse is implementation-defined:
\* those outside the ISO format that hold a digit.  (A string without a
\* digit names no date on any engine.)
LegacyDateStrings ==
    {S_words, S_digits, S_three, JsonStringify(Arr(<<Num(1)>>)),
     JsonStringify(Arr(<<Obj(<<Kn>>, <<Num(1)>>)>>))}

\* t is a value of some record of some array of d, after flattening
OccursIn(t, d) ==
    \E opt \in {findArrays(d, <<>>)[i] : i \in 1..Len(findArrays(d, <<>>))} :
        \E i \in 1..Len(opt.arr.c) :
            LET flat == flattenData(opt.arr.c[i], <<>>)
            IN \E j \in 1..Len(flat) : flat[j].val = Str(t)

(***************************************************************************)
(* DashboardBuilder: state, effects and event handlers                     *)
(***************************************************************************)
InitialConfig ==
    [type |-> "bar", xAxis |-> <<>>, yAxis |-> <<>>, groupBy |-> <<>>,
     title |-> <<"M", "y", " ", "C", "h", "a", "r", "t">>]

\* arrayOptions.find(opt => opt.path === arrayPath)?.arr || []
selectedArray(options, path) ==
    LET hits == {i \in 1..Len(options) : options[i].path = path}
    IN IF hits = {} THEN Arr(<<>>)
       ELSE options[CHOOSE i \in hits : \A h \in hits : i <= h].arr

\* The chartConfig effect, run by a render that holds config, fs and shown
\* (its processedData) while pending holds the updates queued before it:
\* the resulting [processedData, suggestions].
chartEffect(arr, config, fs, shown, pending) ==
    IF config.xAxis # <<>> /\ config.yAxis # <<>> /\ Len(arr.c) > 0
    THEN [processedData |-> processDataForChart(arr, config),
          suggestions |-> generateSuggestions(fs, config, shown)]
    ELSE pending

ChartTypes == {"bar", "line", "pie", "table"}
Titles == {<<"T">>}

\* The arrayPath effect of a render that holds options and path, followed by
\* the chartConfig effect of the same render (which still holds the old
\* chartConfig, fields and processedData), then the chartConfig effect of
\* the render that follows.
ArrayEffects(options, path) ==
    \E arr \in {selectedArray(options, path)} :
    \E detectedFields \in {analyzeFields(arr, dateParseImpl)} :
    \E auto \in {suggestChartConfig(detectedFields)} :
    \E config1 \in {IF auto # NoConfig THEN auto ELSE chartConfig} :
    \E first \in {chartEffect(arr, chartConfig, fields, processedData,
                              [processedData |-> <<>>, suggestions |-> suggestions])} :
    \E second \in {chartEffect(arr, config1, detectedFields, first.processedData, first)} :
        /\ fields' = detectedFields
        /\ autoConfig' = auto
        /\ chartConfig' = config1
        /\ processedData' = second.processedData
        /\ suggestions' = second.suggestions

\* the component as constructed: the useState initial values, effects pending
DashInit ==
    /\ data \in DataPool
    /\ dateParseImpl \in SUBSET {t \in LegacyDateStrings : OccursIn(t, data)}
    /\ mounted = FALSE
    /\ arrayOptions = <<>>
    /\ arrayPath = RootPath
    /\ fields = <<>>
    /\ autoConfig = NoConfig
    /\ chartConfig = InitialConfig
    /\ processedData = <<>>
    /\ suggestions = <<>>

\* The effects after the first render.  The data effect sets arrayOptions
\* and arrayPath; the other two effects of that render see no array and
\* leave fields and processedData empty; the next render runs them again.
Mount ==
    /\ ~mounted
    /\ mounted' = TRUE
    /\ \E options \in {findArrays(data, <<>>)} :
       \E path \in {IF Len(options) > 0 THEN options[1].path ELSE RootPath} :
          /\ arrayOptions' = options
          /\ arrayPath' = path
          /\ ArrayEffects(options, path)
    /\ UNCHANGED <<data, dateParseImpl, apiVars, authVars>>

\* the array selector's onChange (rendered when there is more than one array)
SelectArray(path) ==
    /\ mounted
    /\ Len(arrayOptions) > 1
    /\ \E i \in 1..Len(arrayOptions) : arrayOptions[i].path = path
    /\ path # arrayPath
    /\ arrayPath' = path
    /\ ArrayEffects(arrayOptions, path)
    /\ UNCHANGED <<data, dateParseImpl, mounted, arrayOptions, apiVars, authVars>>

\* setChartConfig(config) from an onChange handler, then the chartConfig effect
ConfigEdit(config) ==
    /\ mounted
    /\ \E arr \in {selectedArray(arrayOptions, arrayPath)} :
       \E after \in {chartEffect(arr, config, fields, processedData,
                                 [processedData |-> processedData,
                                  suggestions |-> suggestions])} :
          /\ chartConfig' = config
          /\ processedData' = after.processedData
          /\ suggestions' = after.suggestions
    /\ UNCHANGED <<data, dateParseImpl, mounted, arrayOptions, arrayPath, fields, autoConfig,
                   apiVars, authVars>>

fieldNames(fs) == {fs[i].name : i \in 1..Len(fs)}

\* the chart type select
SetChartType(type) ==
    \E config \in {[chartConfig EXCEPT !.type = type]} : ConfigEdit(config)

\* the title input
SetTitle(title) ==
    \E config \in {[chartConfig EXCEPT !.title = title]} : ConfigEdit(config)

\* The X-axis select: any field.  The placeholder option "Select field..."
\* of the two axis selects is not chosen: it only switches the chartConfig
\* effect off until a field is chosen again.
SetXAxis(name) ==
    /\ name \in fieldNames(fields)
    /\ \E config \in {[chartConfig EXCEPT !.xAxis = name]} : ConfigEdit(config)

\* the Y-axis select: any field for a table, the number fields otherwise
SetYAxis(name) ==
    /\ name \in (IF chartConfig.type = "table" THEN fieldNames(fields)
                 ELSE fieldNames(fieldsOfType(fields, "number")))
    /\ \E config \in {[chartConfig EXCEPT !.yAxis = name]} : ConfigEdit(config)

\* the group-by select, not rendered for a pie chart: "None" or a string field
SetGroupBy(name) ==
    /\ chartConfig.type # "pie"
    /\ name \in {<<>>} \cup fieldNames(fieldsOfType(fields, "string"))
    /\ \E config \in {[chartConfig EXCEPT !.groupBy = name]} : ConfigEdit(config)

AllPaths == {arrayOptions[i].path : i \in 1..Len(arrayOptions)}

(***************************************************************************)
(* The Convex backend of the API tester: apiHistory functions and the      *)
(* makeRequest action.  A call is made by an authenticated user or by      *)
(* Anonymous, for whom getAuthUserId returns null.                         *)
(***************************************************************************)
MaxDocs == 2
MaxOutbound == 1
MaxNow == 1

UserIds == {"u1", "u2"}
Anonymous == "anonymous"
Callers == UserIds \cup {Anonymous}

\* getAuthUserId(ctx); "null" stands for null
getAuthUserId(caller) == IF caller \in UserIds THEN caller ELSE "null"

Methods == {"GET", "POST"}
GoodUrl == "https://api.test/items"
Urls == {GoodUrl, "not a url"}
\* new URL(url) does not throw
ParsesAsUrl(url) == url = GoodUrl
NoBody == "undefined"
GoodBody == "{\"a\":1}"
Bodies == {NoBody, "", GoodBody, "{bad"}
\* JSON.parse(body) does not throw
ParsesAsJson(body) == body = GoodBody
NoHeaders == [h \in {} |-> ""]
HeaderArgs == {NoHeaders, [h \in {"Content-Type"} |-> "text/plain"]}
DefaultHeaders ==
    [h \in {"Content-Type", "User-Agent"} |->
        IF h = "Content-Type" THEN "application/json" ELSE "ConvexApiTester/1.0"]
\* { ...DefaultHeaders, ...headers }
MergedHeaders(headers) ==
    [h \in DOMAIN DefaultHeaders \cup DOMAIN headers |->
        IF h \in DOMAIN headers THEN headers[h] ELSE DefaultHeaders[h]]
\* headers?.["Content-Type"] || headers?.["content-type"]
ContentTypeOf(merged) ==
    IF "Content-Type" \in DOMAIN merged /\ merged["Content-Type"] # "" THEN merged["Content-Type"]
    ELSE IF "content-type" \in DOMAIN merged THEN merged["content-type"]
    ELSE "undefined"
\* contentType?.includes("application/json")
IsJsonType(contentType) == contentType = "application/json"

SaveNames == {"req"}
FetchOutcomes == {"200", "500", "throws"}

Failed(fn, caller, message) ==
    [fn |-> fn, by |-> caller, kind |-> "error", message |-> message, changed |-> FALSE,
     rows |-> <<>>]
Returned(fn, caller, kind, changed, rows) ==
    [fn |-> fn, by |-> caller, kind |-> kind, message |-> "", changed |-> changed,
     rows |-> rows]

ApiIdle ==
    /\ apiHistory = {}
    /\ nextId = 1
    /\ now = 0
    /\ outbound = <<>>
    /\ lastResult = Returned("none", Anonymous, "none", FALSE, <<>>)

DashIdle ==
    /\ data = Null
    /\ dateParseImpl = {}
    /\ mounted = FALSE
    /\ arrayOptions = <<>>
    /\ arrayPath = RootPath
    /\ fields = <<>>
    /\ autoConfig = NoConfig
    /\ chartConfig = InitialConfig
    /\ processedData = <<>>
    /\ suggestions = <<>>

\* Date.now() moves on
Tick ==
    /\ now < MaxNow
    /\ now' = now + 1
    /\ UNCHANGED <<apiHistory, nextId, outbound, lastResult, dashVars, authVars>>

saveApiRequest(caller, name, url, method, body) ==
    /\ nextId <= MaxDocs
    /\ IF getAuthUserId(caller) = "null"
       THEN /\ lastResult' = Failed("saveApiRequest", caller, "Unauthorized")
            /\ UNCHANGED <<apiHistory, nextId>>
       ELSE /\ apiHistory' = apiHistory \cup
                    {[id |-> nextId, userId |-> getAuthUserId(caller), name |-> name,
                      url |-> url, method |-> method, body |-> body, createdAt |-> now]}
            /\ nextId' = nextId + 1
            /\ lastResult' = Returned("saveApiRequest", caller, "id", TRUE, <<nextId>>)
    /\ UNCHANGED <<now, outbound, dashVars, authVars>>

\* ctx.db.get(id); the empty set stands for null
dbGet(id) == {r \in apiHistory : r.id = id}

\* deleteApiRequest without the comparison of request.userId with the caller
deleteApiRequestOfAnyOwner(caller, id) ==
    /\ IF getAuthUserId(caller) = "null"
       THEN /\ lastResult' = Failed("deleteApiRequest", caller, "Unauthorized")
            /\ UNCHANGED apiHistory
       ELSE IF dbGet(id) = {}
       THEN /\ lastResult' = Failed("deleteApiRequest", caller, "Request not found")
            /\ UNCHANGED apiHistory
       ELSE /\ apiHistory' = apiHistory \ dbGet(id)
            /\ lastResult' = Returned("deleteApiRequest", caller, "void", TRUE, <<>>)
    /\ UNCHANGED <<nextId, now, outbound, dashVars, authVars>>

deleteApiRequest(caller, id) ==
    /\ IF getAuthUserId(caller) = "null"
       THEN /\ lastResult' = Failed("deleteApiRequest", caller, "Unauthorized")
            /\ UNCHANGED apiHistory
       ELSE IF dbGet(id) = {}
       THEN /\ lastResult' = Failed("deleteApiRequest", caller, "Request not found")
            /\ UNCHANGED apiHistory
       ELSE IF \E request \in dbGet(id) : request.userId # getAuthUserId(caller)
       THEN /\ lastResult' = Failed("deleteApiRequest", caller, "Unauthorized")
            /\ UNCHANGED apiHistory
       ELSE /\ apiHistory' = apiHistory \ dbGet(id)
            /\ lastResult' = Returned("deleteApiRequest", caller, "void", TRUE, <<>>)
    /\ UNCHANGED <<nextId, now, outbound, dashVars, authVars>>

\* .withIndex("by_user_id", q => q.eq("userId", userId))
byUserId(userId) == {r \in apiHistory : r.userId = userId}

\* .order("desc").collect(): newest document first
RECURSIVE collectDesc(_)
collectDesc(rows) ==
    IF rows = {} THEN <<>>
    ELSE LET newest == CHOOSE r \in rows : \A o \in rows : o.id <= r.id
         IN <<newest>> \o collectDesc(rows \ {newest})

getUserApiHistory(caller) ==
    /\ lastResult' =
          IF getAuthUserId(caller) = "null"
          THEN Returned("getUserApiHistory", caller, "rows", FALSE, <<>>)
          ELSE Returned("getUserApiHistory", caller, "rows", FALSE,
                        collectDesc(byUserId(getAuthUserId(caller))))
    /\ UNCHANGED <<apiHistory, nextId, now, outbound, dashVars, authVars>>

\* clearAll with a query that is not narrowed to the caller's records
clearAllOfEveryUser(caller) ==
    /\ IF getAuthUserId(caller) = "null"
       THEN /\ lastResult' = Failed("clearAll", caller, "Unauthorized")
            /\ UNCHANGED apiHistory
       ELSE /\ apiHistory' = {}
            /\ lastResult' = Returned("clearAll", caller, "void", apiHistory # {}, <<>>)
    /\ UNCHANGED <<nextId, now, outbound, dashVars, authVars>>

clearAll(caller) ==
    /\ IF getAuthUserId(caller) = "null"
       THEN /\ lastResult' = Failed("clearAll", caller, "Unauthorized")
            /\ UNCHANGED apiHistory
       ELSE /\ apiHistory' = apiHistory \ byUserId(getAuthUserId(caller))
            /\ lastResult' = Returned("clearAll", caller, "void",
                                      byUserId(getAuthUserId(caller)) # {}, <<>>)
    /\ UNCHANGED <<nextId, now, outbound, dashVars, authVars>>

\* The makeRequest action.  outcome is what fetch does: a response with a
\* status, or a rejection.
makeRequest(caller, url, method, headers, body, outcome) ==
    /\ Len(outbound) < MaxOutbound
    /\ IF ~ParsesAsUrl(url)
       THEN /\ lastResult' = Failed("makeRequest", caller, "Invalid URL format")
            /\ UNCHANGED outbound
       ELSE IF /\ method = "POST"
               /\ body \notin {NoBody, ""}
               /\ IsJsonType(ContentTypeOf(MergedHeaders(headers)))
               /\ ~ParsesAsJson(body)
       THEN /\ lastResult' = Failed("makeRequest", caller, "Invalid JSON in request body")
            /\ UNCHANGED outbound
       ELSE /\ outbound' = Append(outbound,
                    [by |-> caller, url |-> url, method |-> method,
                     body |-> IF method = "POST" /\ body \notin {NoBody, ""} THEN body ELSE NoBody])
            /\ lastResult' =
                  IF outcome = "throws" THEN Failed("makeRequest", caller, "fetch failed")
                  ELSE Returned("makeRequest", caller, outcome, FALSE, <<>>)
    /\ UNCHANGED <<apiHistory, nextId, now, dashVars, authVars>>

(***************************************************************************)
(* The Convex backend of accounts: userProfiles and otpCodes mutations.    *)
(* Time is counted in minutes.  A userProfiles document is kept per user;  *)
(* exists = FALSE stands for no document, lockoutUntil = 0 for an absent   *)
(* lockoutUntil (`!profile.lockoutUntil` holds for both).                  *)
(***************************************************************************)
MaxOtps == 2
MaxClock == 20
MaxAttempts == 6

\* 10 * 60 * 1000 ms
OtpLifetime == 10
\* 15 * 60 * 1000 ms
LockoutTime == 15
\* newAttempts >= 5
LockoutThreshold == 5

OtpTypes == {"email_verification", "two_factor"}
\* Math.floor(100000 + Math.random() * 900000).toString(): some 6-digit codes
SixDigitCodes == {"111111", "222222"}
ClockSteps == {10}

NoProfile ==
    [exists |-> FALSE, emailVerified |-> FALSE, twoFactorEnabled |-> FALSE,
     loginAttempts |-> 0, lockoutUntil |-> 0]

AuthIdle ==
    /\ userProfiles = [u \in UserIds |-> NoProfile]
    /\ otpCodes = <<>>
    /\ formEmail = ""
    /\ isLockedHeld = "undefined"
    /\ otpVerified = {}
    /\ failedSince = [u \in UserIds |-> 0]
    /\ lockedUntil = [u \in UserIds |-> 0]

\* what the account functions leave alone besides the tables they write
accountFrame == <<dashVars, apiHistory, nextId, outbound>>
loginVars == <<formEmail, isLockedHeld, failedSince, lockedUntil>>

\* Date.now() moves on
Elapse(minutes) ==
    /\ now + minutes <= MaxClock
    /\ now' = now + minutes
    /\ UNCHANGED <<accountFrame, lastResult, authVars>>

\* createUserProfile that inserts a fresh profile over an existing one
createUserProfileAnew(caller) ==
    /\ IF getAuthUserId(caller) = "null"
       THEN /\ lastResult' = Failed("createUserProfile", caller, "Not authenticated")
            /\ UNCHANGED userProfiles
       ELSE /\ userProfiles' =
                  [userProfiles EXCEPT ![caller] =
                      [exists |-> TRUE, emailVerified |-> FALSE, twoFactorEnabled |-> FALSE,
                       loginAttempts |-> 0, lockoutUntil |-> 0]]
            /\ lastResult' = Returned("createUserProfile", caller, "id", TRUE, <<>>)
    /\ UNCHANGED <<accountFrame, now, otpCodes, otpVerified, loginVars>>

createUserProfile(caller) ==
    /\ IF getAuthUserId(caller) = "null"
       THEN /\ lastResult' = Failed("createUserProfile", caller, "Not authenticated")
            /\ UNCHANGED userProfiles
       ELSE IF userProfiles[caller].exists
       THEN /\ lastResult' = Returned("createUserProfile", caller, "id", FALSE, <<>>)
            /\ UNCHANGED userProfiles
       ELSE /\ userProfiles' =
                  [userProfiles EXCEPT ![caller] =
                      [exists |-> TRUE, emailVerified |-> FALSE, twoFactorEnabled |-> FALSE,
                       loginAttempts |-> 0, lockoutUntil |-> 0]]
            /\ lastResult' = Returned("createUserProfile", caller, "id", TRUE, <<>>)
    /\ UNCHANGED <<accountFrame, now, otpCodes, otpVerified, loginVars>>

\* updateProfile; the names are left out, and twoFactorEnabled is given (as
\* the Dashboard always does)
updateProfile(caller, twoFactorEnabled) ==
    /\ IF getAuthUserId(caller) = "null"
       THEN /\ lastResult' = Failed("updateProfile", caller, "Not authenticated")
            /\ UNCHANGED userProfiles
       ELSE IF ~userProfiles[caller].exists
       THEN /\ lastResult' = Failed("updateProfile", caller, "Profile not found")
            /\ UNCHANGED userProfiles
       ELSE /\ userProfiles' =
                  [userProfiles EXCEPT ![caller].twoFactorEnabled = twoFactorEnabled]
            /\ lastResult' = Returned("updateProfile", caller, "id",
                                      userProfiles[caller].twoFactorEnabled # twoFactorEnabled,
                                      <<>>)
    /\ UNCHANGED <<accountFrame, now, otpCodes, otpVerified, loginVars>>

\* { success: false, error: message }
Refused(fn, caller, message, changed) ==
    [fn |-> fn, by |-> caller, kind |-> "failure", message |-> message, changed |-> changed,
     rows |-> <<>>]

\* ctx.db.patch(otp._id, { used: true }) for the documents at the positions `ids`
markUsed(ids) ==
    [i \in 1..Len(otpCodes) |->
        IF i \in ids THEN [otpCodes[i] EXCEPT !.used = TRUE] ELSE otpCodes[i]]

\* generateOTP that leaves the existing unused codes as they are
generateOTPKeepingOld(caller, type, code) ==
    /\ Len(otpCodes) < MaxOtps
    /\ IF getAuthUserId(caller) = "null"
       THEN /\ lastResult' = Failed("generateOTP", caller, "Not authenticated")
            /\ UNCHANGED otpCodes
       ELSE /\ otpCodes' = Append(otpCodes,
                    [userId |-> caller, code |-> code, expiresAt |-> now + OtpLifetime,
                     used |-> FALSE, type |-> type])
            /\ lastResult' = Returned("generateOTP", caller, "code", TRUE, <<code>>)
    /\ UNCHANGED <<accountFrame, now, userProfiles, otpVerified, loginVars>>

generateOTP(caller, type, code) ==
    /\ Len(otpCodes) < MaxOtps
    /\ IF getAuthUserId(caller) = "null"
       THEN /\ lastResult' = Failed("generateOTP", caller, "Not authenticated")
            /\ UNCHANGED otpCodes
       ELSE LET existingOTPs == {i \in 1..Len(otpCodes) :
                                    /\ otpCodes[i].userId = caller
                                    /\ otpCodes[i].type = type
                                    /\ otpCodes[i].used = FALSE}
            IN /\ otpCodes' = Append(markUsed(existingOTPs),
                      [userId |-> caller, code |-> code, expiresAt |-> now + OtpLifetime,
                       used |-> FALSE, type |-> type])
               /\ lastResult' = Returned("generateOTP", caller, "code", TRUE, <<code>>)
    /\ UNCHANGED <<accountFrame, now, userProfiles, otpVerified, loginVars>>

\* the documents the query of verifyOTP matches
otpMatches(caller, code, type) ==
    {i \in 1..Len(otpCodes) :
        /\ otpCodes[i].code = code
        /\ otpCodes[i].userId = caller
        /\ otpCodes[i].type = type
        /\ otpCodes[i].used = FALSE}

\* verifyOTP that does not mark the record used after a success
verifyOTPKeepingUnused(caller, code, type) ==
    /\ IF getAuthUserId(caller) = "null"
       THEN /\ lastResult' = Failed("verifyOTP", caller, "Not authenticated")
            /\ UNCHANGED <<otpCodes, userProfiles, otpVerified>>
       ELSE IF Cardinality(otpMatches(caller, code, type)) > 1
       THEN /\ lastResult' = Failed("verifyOTP", caller, "unique() returned more than one result")
            /\ UNCHANGED <<otpCodes, userProfiles, otpVerified>>
       ELSE IF otpMatches(caller, code, type) = {}
       THEN /\ lastResult' = Refused("verifyOTP", caller, "Invalid OTP code", FALSE)
            /\ UNCHANGED <<otpCodes, userProfiles, otpVerified>>
       ELSE \E otpRecord \in otpMatches(caller, code, type) :
            IF otpCodes[otpRecord].expiresAt < now
            THEN /\ otpCodes' = markUsed({otpRecord})
                 /\ lastResult' = Refused("verifyOTP", caller, "OTP code has expired", TRUE)
                 /\ UNCHANGED <<userProfiles, otpVerified>>
            ELSE /\ UNCHANGED otpCodes
                 /\ userProfiles' =
                       IF type = "email_verification" /\ userProfiles[caller].exists
                       THEN [userProfiles EXCEPT ![caller].emailVerified = TRUE]
                       ELSE userProfiles
                 /\ otpVerified' = otpVerified \cup {<<caller, type>>}
                 /\ lastResult' = Returned("verifyOTP", caller, "success", TRUE, <<>>)
    /\ UNCHANGED <<accountFrame, now, loginVars>>

verifyOTP(caller, code, type) ==
    /\ IF getAuthUserId(caller) = "null"
       THEN /\ lastResult' = Failed("verifyOTP", caller, "Not authenticated")
            /\ UNCHANGED <<otpCodes, userProfiles, otpVerified>>
       ELSE IF Cardinality(otpMatches(caller, code, type)) > 1
       THEN /\ lastResult' = Failed("verifyOTP", caller, "unique() returned more than one result")
            /\ UNCHANGED <<otpCodes, userProfiles, otpVerified>>
       ELSE IF otpMatches(caller, code, type) = {}
       THEN /\ lastResult' = Refused("verifyOTP", caller, "Invalid OTP code", FALSE)
            /\ UNCHANGED <<otpCodes, userProfiles, otpVerified>>
       ELSE \E otpRecord \in otpMatches(caller, code, type) :
            IF otpCodes[otpRecord].expiresAt < now
            THEN /\ otpCodes' = markUsed({otpRecord})
                 /\ lastResult' = Refused("verifyOTP", caller, "OTP code has expired", TRUE)
                 /\ UNCHANGED <<userProfiles, otpVerified>>
            ELSE /\ otpCodes' = markUsed({otpRecord})
                 /\ userProfiles' =
                       IF type = "email_verification" /\ userProfiles[caller].exists
                       THEN [userProfiles EXCEPT ![caller].emailVerified = TRUE]
                       ELSE userProfiles
                 /\ otpVerified' = otpVerified \cup {<<caller, type>>}
                 /\ lastResult' = Returned("verifyOTP", caller, "success", TRUE, <<>>)
    /\ UNCHANGED <<accountFrame, now, loginVars>>

\* the users table: every user id is the e-mail address of its account; the
\* empty string is the form's initial e-mail, which belongs to nobody
FormEmails == {""} \cup UserIds

\* the profile recordLoginAttempt and isAccountLocked find for an e-mail
hasProfile(email) == email \in UserIds /\ userProfiles[email].exists

\* the query isAccountLocked
isAccountLocked(email) ==
    IF ~hasProfile(email) \/ userProfiles[email].lockoutUntil = 0
    THEN FALSE
    ELSE userProfiles[email].lockoutUntil > now

\* the mutation recordLoginAttempt; failedSince counts the failures recorded
\* since the last recorded success, lockedUntil keeps the end of the last
\* lockout that was started
recordLoginAttempt(email, success) ==
    IF ~hasProfile(email)
    THEN UNCHANGED <<userProfiles, failedSince, lockedUntil>>
    ELSE IF success
    THEN /\ userProfiles' = [userProfiles EXCEPT ![email].loginAttempts = 0,
                                                 ![email].lockoutUntil = 0]
         /\ failedSince' = [failedSince EXCEPT ![email] = 0]
         /\ UNCHANGED lockedUntil
    ELSE \E newAttempts \in {userProfiles[email].loginAttempts + 1} :
         \E lockoutUntil \in {IF newAttempts >= LockoutThreshold THEN now + LockoutTime ELSE 0} :
            /\ userProfiles' = [userProfiles EXCEPT ![email].loginAttempts = newAttempts,
                                                    ![email].lockoutUntil = lockoutUntil]
            /\ failedSince' = [failedSince EXCEPT ![email] = @ + 1]
            /\ lockedUntil' = IF newAttempts >= LockoutThreshold
                              THEN [lockedUntil EXCEPT ![email] = lockoutUntil]
                              ELSE lockedUntil

\* setEmail: the query is subscribed anew (or skipped for the empty e-mail)
\* and its result is undefined until the server answers
SetEmail(email) ==
    /\ email # formEmail
    /\ formEmail' = email
    /\ isLockedHeld' = "undefined"
    /\ UNCHANGED <<accountFrame, now, lastResult, userProfiles, otpCodes, otpVerified,
                   failedSince, lockedUntil>>

\* the server's answer to useQuery(api.users.isAccountLocked, { email }) arrives
QueryUpdate ==
    /\ formEmail # ""
    /\ isLockedHeld' = IF isAccountLocked(formEmail) THEN "true" ELSE "false"
    /\ isLockedHeld' # isLockedHeld
    /\ UNCHANGED <<accountFrame, now, lastResult, userProfiles, otpCodes, otpVerified,
                   formEmail, failedSince, lockedUntil>>

SignInOutcomes == {"result", "throws"}

\* AuthForm.handleSubmit in mode "login"
handleSubmit(recaptchaToken, signIn) ==
    /\ IF isLockedHeld = "true"
       THEN /\ lastResult' = Returned("handleSubmit", formEmail, "locked", FALSE, <<>>)
            /\ UNCHANGED <<userProfiles, failedSince, lockedUntil>>
       ELSE IF ~recaptchaToken
       THEN /\ lastResult' = Returned("handleSubmit", formEmail, "recaptcha", FALSE, <<>>)
            /\ UNCHANGED <<userProfiles, failedSince, lockedUntil>>
       ELSE IF signIn = "result"
       THEN /\ formEmail \in UserIds
            /\ recordLoginAttempt(formEmail, TRUE)
            /\ lastResult' = Returned("handleSubmit", formEmail, "signedIn", TRUE, <<>>)
       ELSE /\ hasProfile(formEmail) => userProfiles[formEmail].loginAttempts < MaxAttempts
            /\ recordLoginAttempt(formEmail, FALSE)
            /\ lastResult' = Returned("handleSubmit", formEmail, "failed", TRUE, <<>>)
    /\ UNCHANGED <<accountFrame, now, otpCodes, otpVerified, formEmail, isLockedHeld>>

\* what jwt.verify looks at; role "none" is a payload without a role
TokenRoles == {"none", "Admin", "Analyst", "Viewer", "admin"}
Tokens ==
    [malformed : BOOLEAN, signed : BOOLEAN, active : BOOLEAN, expired : BOOLEAN,
     role : TokenRoles]
RequiredRoles == {"undefined", "Admin", "Analyst", "Viewer"}

\* jwt.verify(token, JWT_SECRET): the name of the error it throws, or "decoded"
jwtVerify(token) ==
    IF token.malformed \/ ~token.signed THEN "JsonWebTokenError"
    ELSE IF ~token.active THEN "NotBeforeError"
    ELSE IF token.expired THEN "TokenExpiredError"
    ELSE "decoded"

\* validateAccess with a role hierarchy: an Admin passes every requirement
validateAccessWithHierarchy(token, requiredRole) ==
    /\ lastResult' =
          IF jwtVerify(token) = "JsonWebTokenError"
          THEN Failed("validateAccess", Anonymous, "Invalid token")
          ELSE IF jwtVerify(token) = "TokenExpiredError"
          THEN Failed("validateAccess", Anonymous, "Token has expired")
          ELSE IF jwtVerify(token) = "NotBeforeError"
          THEN Failed("validateAccess", Anonymous, "jwt not active")
          ELSE IF /\ requiredRole # "undefined"
                  /\ token.role = "none" \/ token.role \notin {requiredRole, "Admin"}
          THEN Failed("validateAccess", Anonymous, "Forbidden: Insufficient permissions")
          ELSE Returned("validateAccess", Anonymous, "decoded", FALSE, <<token.role>>)
    /\ UNCHANGED <<accountFrame, now, authVars>>

validateAccess(token, requiredRole) ==
    /\ lastResult' =
          IF jwtVerify(token) = "JsonWebTokenError"
          THEN Failed("validateAccess", Anonymous, "Invalid token")
          ELSE IF jwtVerify(token) = "TokenExpiredError"
          THEN Failed("validateAccess", Anonymous, "Token has expired")
          ELSE IF jwtVerify(token) = "NotBeforeError"
          THEN Failed("validateAccess", Anonymous, "jwt not active")
          ELSE IF /\ requiredRole # "undefined"
                  /\ token.role = "none" \/ token.role # requiredRole
          THEN Failed("validateAccess", Anonymous, "Forbidden: Insufficient permissions")
          ELSE Returned("validateAccess", Anonymous, "decoded", FALSE, <<token.role>>)
    /\ UNCHANGED <<accountFrame, now, authVars>>

ApiInit == DashIdle /\ ApiIdle /\ AuthIdle

AuthInit == DashIdle /\ ApiIdle /\ AuthIdle

OtpNext ==
    \/ \E minutes \in ClockSteps : Elapse(minutes)
    \/ \E caller \in Callers : createUserProfile(caller)
    \/ \E caller \in Callers, twoFactorEnabled \in BOOLEAN :
          updateProfile(caller, twoFactorEnabled)
    \/ \E caller \in Callers, type \in OtpTypes, code \in SixDigitCodes :
          generateOTP(caller, type, code)
    \/ \E caller \in Callers, code \in SixDigitCodes, type \in OtpTypes :
          verifyOTP(caller, code, type)

OtpSpec == AuthInit /\ [][OtpNext]_vars

LoginNext ==
    \/ \E minutes \in ClockSteps : Elapse(minutes)
    \/ \E caller \in Callers : createUserProfile(caller)
    \/ \E email \in FormEmails : SetEmail(email)
    \/ QueryUpdate
    \/ \E recaptchaToken \in BOOLEAN, signIn \in SignInOutcomes :
          handleSubmit(recaptchaToken, signIn)

LoginSpec == AuthInit /\ [][LoginNext]_vars

\* every operation that writes a profile, at one instant, with one code in
\* circulation and the form used for one account
ProfileCodes == {"111111"}
ProfileEmails == {"u1"}

ProfileNext ==
    \/ \E caller \in Callers : createUserProfile(caller)
    \/ \E caller \in Callers, twoFactorEnabled \in BOOLEAN :
          updateProfile(caller, twoFactorEnabled)
    \/ \E caller \in Callers, type \in OtpTypes, code \in ProfileCodes :
          generateOTP(caller, type, code)
    \/ \E caller \in Callers, code \in ProfileCodes, type \in OtpTypes :
          verifyOTP(caller, code, type)
    \/ \E email \in ProfileEmails : SetEmail(email)
    \/ \E signIn \in SignInOutcomes : handleSubmit(TRUE, signIn)

ProfileSpec == AuthInit /\ [][ProfileNext]_vars

AccessNext ==
    \/ \E minutes \in ClockSteps : Elapse(minutes)
    \/ \E caller \in Callers : createUserProfile(caller)
    \/ \E token \in Tokens, requiredRole \in RequiredRoles :
          validateAccess(token, requiredRole)

AccessSpec == AuthInit /\ [][AccessNext]_vars

ApiNext ==
    \/ Tick
    \/ \E caller \in Callers, name \in SaveNames :
          saveApiRequest(caller, name, GoodUrl, "GET", NoBody)
    \/ \E caller \in Callers, id \in 1..MaxDocs : deleteApiRequest(caller, id)
    \/ \E caller \in Callers : getUserApiHistory(caller)
    \/ \E caller \in Callers : clearAll(caller)
    \/ \E caller \in Callers, url \in Urls, method \in Methods, headers \in HeaderArgs,
          body \in Bodies, outcome \in FetchOutcomes :
          makeRequest(caller, url, method, headers, body, outcome)

ApiSpec == ApiInit /\ [][ApiNext]_vars

Init == DashInit /\ ApiIdle /\ AuthIdle

Next ==
    \/ Mount
    \/ \E path \in AllPaths : SelectArray(path)
    \/ \E type \in ChartTypes : SetChartType(type)
    \/ \E title \in Titles : SetTitle(title)
    \/ \E name \in fieldNames(fields) : SetXAxis(name)
    \/ \E name \in fieldNames(fields) : SetYAxis(name)
    \/ \E name \in {<<>>} \cup fieldNames(fields) : SetGroupBy(name)

Spec == Init /\ [][Next]_vars

(***************************************************************************)
(* Array discovery                                                         *)
(***************************************************************************)
\* the arrays that occur anywhere in a value, the value itself included
RECURSIVE arraysWithin(_)
arraysWithin(v) ==
    (IF IsArray(v) THEN {v} ELSE {})
        \cup UNION {arraysWithin(v.c[i]) : i \in 1..Len(v.c)}

\* C1: once the data effect has run, every array that occurs anywhere in
\* the data, at any depth, is among the candidate datasets that findArrays
\* returned.
C1_EveryArrayIsCandidate ==
    mounted =>
        \A a \in arraysWithin(data) :
            \E i \in 1..Len(arrayOptions) : arrayOptions[i].arr = a

(***************************************************************************)
(* Chart auto-configuration.  autoConfig is what suggestChartConfig        *)
(* returned for the fields that the same run of the arrayPath effect       *)
(* stored in `fields`.                                                     *)
(***************************************************************************)
\* the positions in `fields` of the fields of a type, in order
positionsOfType(type) == {i \in 1..Len(fields) : fields[i].type = type}
\* the name of the j-th field of a type
nameOfNth(type, j) ==
    fields[CHOOSE i \in positionsOfType(type) :
               Cardinality({h \in positionsOfType(type) : h <= i}) = j].name
hasType(type) == positionsOfType(type) # {}

\* C2 as stated: a returned config has type "line" whenever a date field
\* exists, otherwise "bar" when a number field exists, otherwise "table".
C2_LineWheneverDateField ==
    (mounted /\ autoConfig # NoConfig) =>
        autoConfig.type = (IF hasType("date") THEN "line"
                           ELSE IF hasType("number") THEN "bar" ELSE "table")

\* C2, amended: suggestChartConfig returns no config when there is neither
\* a number nor a string field; a returned config has type "line" exactly
\* when there are both a date field and a number field, otherwise "bar"
\* when there is a number field, otherwise "table".
C2_LineNeedsDateAndNumber ==
    mounted =>
        /\ (autoConfig = NoConfig) <=> (~hasType("number") /\ ~hasType("string"))
        /\ autoConfig # NoConfig =>
              /\ (autoConfig.type = "line") <=> (hasType("date") /\ hasType("number"))
              /\ (autoConfig.type = "bar") <=> (~hasType("date") /\ hasType("number"))
              /\ (autoConfig.type = "table") <=> ~hasType("number")

\* a date field and a string field but no number field: the type is "table"
C2_DateWithoutNumber ==
    /\ mounted
    /\ hasType("date") /\ ~hasType("number")
    /\ autoConfig # NoConfig /\ autoConfig.type = "table"

\* C9: whenever suggestChartConfig returns a config, its Y-axis is the
\* first number field (empty when there is none) and its X-axis is the
\* first date field if there is one, else the first string field, else the
\* second number field, else the first number field.
C9_DefaultAxes ==
    (mounted /\ autoConfig # NoConfig) =>
        /\ autoConfig.yAxis = (IF hasType("number") THEN nameOfNth("number", 1) ELSE <<>>)
        /\ hasType("date") => autoConfig.xAxis = nameOfNth("date", 1)
        /\ (~hasType("date") /\ hasType("string")) =>
              autoConfig.xAxis = nameOfNth("string", 1)
        /\ (~hasType("date") /\ ~hasType("string")) =>
              IF Cardinality(positionsOfType("number")) > 1
              THEN autoConfig.xAxis = nameOfNth("number", 2)
              ELSE autoConfig.xAxis = nameOfNth("number", 1)

\* only number fields, two of them: X is the second, Y the first
C9_SecondNumberOnX ==
    /\ mounted /\ autoConfig # NoConfig
    /\ ~hasType("date") /\ ~hasType("string")
    /\ Cardinality(positionsOfType("number")) > 1
    /\ autoConfig.xAxis = nameOfNth("number", 2)
    /\ autoConfig.yAxis = nameOfNth("number", 1)
    /\ autoConfig.xAxis # autoConfig.yAxis

(***************************************************************************)
(* Aggregation.  The chart shows processedData; the chartConfig effect     *)
(* computed it from the selected array and chartConfig whenever both axes  *)
(* are set and the array is not empty.                                     *)
(***************************************************************************)
chartArray == selectedArray(arrayOptions, arrayPath)
\* the rows that pass the filter of processDataForChart
filteredRows == projectedRows(chartArray, chartConfig)
chartIsCurrent ==
    /\ mounted
    /\ chartConfig.xAxis # <<>> /\ chartConfig.yAxis # <<>>
    /\ Len(chartArray.c) > 0
grouping == chartIsCurrent /\ chartConfig.groupBy # <<>>

\* the (X-value, group-value) pair of a row
pairOf(row) == <<Get(row, chartConfig.xAxis), Get(row, chartConfig.groupBy)>>
\* the sum of the Y values of a set of filtered rows
RECURSIVE sumY(_)
sumY(rows) ==
    IF rows = {} THEN 0
    ELSE LET i == CHOOSE i \in rows : TRUE
         IN Get(filteredRows[i], chartConfig.yAxis).n + sumY(rows \ {i})

\* processedData is what processDataForChart returns for the state's
\* array and config
ProcessedDataIsCurrent ==
    chartIsCurrent => processedData = processDataForChart(chartArray, chartConfig)

\* the configured fields are three different fields and none is named
\* "count", the name of the row counter
noCountField ==
    /\ CountKey \notin {chartConfig.xAxis, chartConfig.yAxis, chartConfig.groupBy}
    /\ Cardinality({chartConfig.xAxis, chartConfig.yAxis, chartConfig.groupBy}) = 3

\* C3: with groupBy set, the chart has exactly one row per distinct
\* (X-value, group-value) pair of the filtered rows: two rows are collapsed
\* if and only if they agree on both values.  (Stated for configs whose
\* X, Y and group-by fields differ and are not named "count".)
C3_OneRowPerPair ==
    (grouping /\ noCountField) =>
        LET pairs == {pairOf(filteredRows[i]) : i \in 1..Len(filteredRows)}
        IN /\ Len(processedData) = Cardinality(pairs)
           /\ \A p \in pairs :
                 \E j \in 1..Len(processedData) : pairOf(processedData[j]) = p

\* the sum of a field over the rows of the chart
RECURSIVE sumShown(_, _)
sumShown(key, j) ==
    IF j > Len(processedData) THEN 0
    ELSE Get(processedData[j], key).n + sumShown(key, j + 1)

\* C5: with groupBy set, aggregation conserves totals: the sum of Y over
\* the rows of the chart is the sum of Y over the filtered rows, and the
\* sum of count is the number of filtered rows.  (Stated for configs whose
\* X, Y and group-by fields differ.)
C5_TotalsConserved ==
    (grouping /\ Cardinality({chartConfig.xAxis, chartConfig.yAxis, chartConfig.groupBy}) = 3) =>
        /\ sumShown(chartConfig.yAxis, 1) = sumY(1..Len(filteredRows))
        /\ sumShown(CountKey, 1) = Len(filteredRows)

\* the {name, value} row of the pie chart for an X-value
pieRow(x) ==
    Put(Put(<<>>, NameKey, x), ValueKey,
        Num(sumY({i \in 1..Len(filteredRows) :
                     Get(filteredRows[i], chartConfig.xAxis) = x})))

\* C4: whenever the chart type is "pie" and both axes are set, the chart
\* has one {name, value} row per distinct X-value of the filtered rows,
\* value being the sum of Y over the rows with that X-value, whatever
\* groupBy the config still holds.
C4_PieRowPerXValue ==
    (chartIsCurrent /\ chartConfig.type = "pie") =>
        LET xs == {Get(filteredRows[i], chartConfig.xAxis) : i \in 1..Len(filteredRows)}
        IN /\ Len(processedData) = Cardinality(xs)
           /\ \A x \in xs : \E j \in 1..Len(processedData) : processedData[j] = pieRow(x)

(***************************************************************************)
(* Field inference.  `fields` is what analyzeFields returned for the       *)
(* selected array.                                                         *)
(***************************************************************************)
\* the first five records of the selected array
sampled ==
    SubSeq(chartArray.c, 1, IF Len(chartArray.c) < 5 THEN Len(chartArray.c) ELSE 5)
\* the value a sampled record has for a flattened key
valueAt(i, key) == Get(flattenData(sampled[i], <<>>), key)
hasValueAt(i, key) == valueAt(i, key).k \notin {"undefined", "null"}
\* the flattened keys of the sampled records that are objects
sampledKeys ==
    UNION {{flattenData(sampled[i], <<>>)[j].key :
               j \in 1..Len(flattenData(sampled[i], <<>>))} :
           i \in {h \in 1..Len(sampled) : sampled[h].k \in {"object", "array"}}}
\* the first sampled record with a value for a key
decidingRecord(key) ==
    CHOOSE i \in 1..Len(sampled) :
        hasValueAt(i, key) /\ \A h \in 1..(i - 1) : ~hasValueAt(h, key)
fieldNamed(name) == {i \in 1..Len(fields) : fields[i].name = name}

\* C8: the reported fields are the keys of the first 5 records that have a
\* value other than null/undefined in one of them, each once; the type of
\* a field is decided by the first such value among those records; no
\* later record changes names or types.
C8_FirstFiveDecide ==
    mounted =>
        /\ fieldNames(fields) =
              {key \in sampledKeys : \E i \in 1..Len(sampled) : hasValueAt(i, key)}
        /\ Len(fields) = Cardinality(fieldNames(fields))
        /\ \A p \in 1..Len(fields) :
              LET first == valueAt(decidingRecord(fields[p].name), fields[p].name)
              IN /\ fields[p].sampleValue = first
                 /\ fields[p].type = detectFieldType(<<first>>, dateParseImpl)

\* six records: a key that is null in the first five and set in the sixth
\* is not reported, and a key whose first value comes with the fifth
\* record is typed by that value
C8_SixthRecordIgnored ==
    /\ mounted
    /\ Len(chartArray.c) > 5
    /\ \E j \in 1..Len(chartArray.c[6].ks) :
          /\ chartArray.c[6].c[j].k = "number"
          /\ chartArray.c[6].ks[j] \in sampledKeys
          /\ fieldNamed(chartArray.c[6].ks[j]) = {}
    /\ \E p \in 1..Len(fields) :
          /\ decidingRecord(fields[p].name) = 5
          /\ fields[p].type = "string"

\* C6 as stated: a record field whose first non-null sample value is an
\* array is reported with type "array", and one whose value is a nested
\* object with type "object".
C6_ArrayAndObjectTypes ==
    mounted =>
        \A i \in 1..Len(sampled) : \A j \in 1..Len(sampled[i].ks) :
            LET key == sampled[i].ks[j]
                val == sampled[i].c[j]
            IN (sampled[i].k = "object" /\ val.k \in {"array", "object"}
                /\ \A h \in 1..(i - 1) : ~hasValueAt(h, key)) =>
                   \E p \in fieldNamed(key) : fields[p].type = val.k

\* C6, amended: analyzeFields never reports type "array" or "object".  A
\* record field whose first non-null sample value is an array is reported
\* with the array's JSON text as sample value and with type "string" or
\* "date"; a nested object is not reported as a field, its non-null
\* primitive properties are reported under dotted keys.
C6_ArraysAsTextObjectsFlattened ==
    mounted =>
        /\ \A p \in 1..Len(fields) :
              fields[p].type \in {"number", "date", "boolean", "string"}
        /\ \A i \in 1..Len(sampled) : \A j \in 1..Len(sampled[i].ks) :
              LET key == sampled[i].ks[j]
                  val == sampled[i].c[j]
              IN sampled[i].k = "object" =>
                  /\ (IsArray(val) /\ \A h \in 1..(i - 1) : ~hasValueAt(h, key)) =>
                        \E p \in fieldNamed(key) :
                            /\ fields[p].sampleValue = Str(JsonStringify(val))
                            /\ fields[p].type \in {"string", "date"}
                  /\ val.k = "object" =>
                        /\ (\A h \in 1..Len(sampled) : ~hasValueAt(h, key)) =>
                              fieldNamed(key) = {}
                        /\ \A q \in 1..Len(val.ks) :
                              val.c[q].k \in {"number", "string", "boolean"} =>
                                  fieldNamed(DottedKey(key, val.ks[q])) # {}

\* a record with an array and a nested object: the array is a string
\* field, the object's property a field of its own
C6_StructuredRecord ==
    /\ mounted
    /\ \E i \in 1..Len(sampled) : \E j, q \in 1..Len(sampled[i].ks) :
          /\ sampled[i].k = "object"
          /\ IsArray(sampled[i].c[j])
          /\ \E p \in fieldNamed(sampled[i].ks[j]) : fields[p].type = "string"
          /\ sampled[i].c[q].k = "object" /\ Len(sampled[i].c[q].ks) > 0
          /\ fieldNamed(sampled[i].ks[q]) = {}
          /\ fieldNamed(DottedKey(sampled[i].ks[q], sampled[i].c[q].ks[1])) # {}

\* C7 as stated: a string that coerces to a number is a "number",
\* otherwise it is a "date" exactly when it matches the date pattern,
\* otherwise a "string".
C7_DateExactlyByPattern ==
    mounted =>
        \A p \in 1..Len(fields) :
            fields[p].sampleValue.k = "string" =>
                fields[p].type =
                    (IF IsNumericString(fields[p].sampleValue.s) THEN "number"
                     ELSE IF DateRegexTest(fields[p].sampleValue.s) THEN "date"
                     ELSE "string")

\* C7, amended: a string that coerces to a number is a "number" (checked
\* first), otherwise it is a "date" exactly when it matches the date
\* pattern or Date.parse accepts it, otherwise a "string".
C7_DateByPatternOrParse ==
    mounted =>
        \A p \in 1..Len(fields) :
            fields[p].sampleValue.k = "string" =>
                fields[p].type =
                    (IF IsNumericString(fields[p].sampleValue.s) THEN "number"
                     ELSE IF \/ DateRegexTest(fields[p].sampleValue.s)
                             \/ DateParseOk(fields[p].sampleValue.s, dateParseImpl)
                          THEN "date"
                     ELSE "string")

\* a string outside the date pattern that Date.parse accepts is a date,
\* next to a digits-only string that Date.parse accepts and is a number
C7_ParsedDateAndDigits ==
    /\ mounted
    /\ \E p \in 1..Len(fields) :
          /\ fields[p].sampleValue.k = "string"
          /\ ~IsNumericString(fields[p].sampleValue.s)
          /\ ~DateRegexTest(fields[p].sampleValue.s)
          /\ fields[p].type = "date"
    /\ \E p \in 1..Len(fields) :
          /\ fields[p].sampleValue.k = "string"
          /\ DateParseOk(fields[p].sampleValue.s, dateParseImpl)
          /\ fields[p].type = "number"

(***************************************************************************)
(* The API tester backend                                                  *)
(***************************************************************************)
\* C10: a caller with no authenticated user id causes no outbound HTTP
\* request through makeRequest, and saveApiRequest, deleteApiRequest and
\* clearAll change no apiHistory record for such a caller.
C10_OnlyAuthenticatedCallers ==
    /\ \A i \in 1..Len(outbound) : getAuthUserId(outbound[i].by) # "null"
    /\ (getAuthUserId(lastResult.by) = "null"
         /\ lastResult.fn \in {"saveApiRequest", "deleteApiRequest", "clearAll"}) =>
            ~lastResult.changed

\* what a deleteApiRequest(id) step of a caller has to do
deleteOutcome(caller, id) ==
    LET owned == {r \in apiHistory : r.id = id /\ r.userId = caller}
        found == {r \in apiHistory : r.id = id}
    IN IF caller \notin UserIds
       THEN /\ lastResult'.kind = "error" /\ lastResult'.message = "Unauthorized"
            /\ apiHistory' = apiHistory
       ELSE IF found = {}
       THEN /\ lastResult'.kind = "error" /\ lastResult'.message = "Request not found"
            /\ apiHistory' = apiHistory
       ELSE IF owned = {}
       THEN /\ lastResult'.kind = "error" /\ lastResult'.message = "Unauthorized"
            /\ apiHistory' = apiHistory
       ELSE /\ lastResult'.kind # "error"
            /\ apiHistory' = apiHistory \ owned

\* C17: deleteApiRequest removes a record only when the caller is
\* authenticated and owns it; it fails with "Unauthorized" for an
\* unauthenticated caller or a record of another user, with "Request not
\* found" for a missing id, and a failing call leaves apiHistory unchanged.
C17_DeleteOnlyOwnRecord ==
    [][\A caller \in Callers, id \in 1..MaxDocs :
          (lastResult'.fn = "deleteApiRequest" /\ deleteApiRequest(caller, id))
              => deleteOutcome(caller, id)]_vars

\* an authenticated caller was refused the record of another user
C17_ForeignRecordRefused ==
    /\ lastResult.fn = "deleteApiRequest"
    /\ lastResult.by \in UserIds
    /\ lastResult.kind = "error" /\ lastResult.message = "Unauthorized"
    /\ \E r \in apiHistory : r.userId # lastResult.by

\* what a clearAll step of a caller has to do
clearOutcome(caller) ==
    IF caller \notin UserIds
    THEN lastResult'.kind = "error" /\ apiHistory' = apiHistory
    ELSE /\ lastResult'.kind # "error"
         /\ apiHistory' = {r \in apiHistory : r.userId # caller}

\* what a getUserApiHistory step of a caller has to return
historyOutcome(caller) ==
    LET rows == lastResult'.rows
        mine == {r \in apiHistory : r.userId = caller}
    IN /\ lastResult'.kind # "error"
       /\ apiHistory' = apiHistory
       /\ IF caller \notin UserIds THEN rows = <<>>
          ELSE /\ {rows[i] : i \in 1..Len(rows)} = mine
               /\ Len(rows) = Cardinality(mine)
               /\ \A i, j \in 1..Len(rows) :
                     i < j => /\ rows[i].id > rows[j].id
                              /\ rows[i].createdAt >= rows[j].createdAt

unusedOf(userId, type) ==
    {i \in 1..Len(otpCodes) :
        /\ otpCodes[i].userId = userId
        /\ otpCodes[i].type = type
        /\ otpCodes[i].used = FALSE}

\* C12: in every reachable state there is at most one otpCodes record with
\* used = false for each (user, type) pair.
C12_OneUnusedPerUserAndType ==
    \A userId \in UserIds, type \in OtpTypes : Cardinality(unusedOf(userId, type)) <= 1

\* generateOTP has replaced a code: the older record of the pair is used and
\* the newer one is the pair's unused record
C12_OlderCodeInvalidated ==
    /\ lastResult.fn = "generateOTP"
    /\ \E i, j \in 1..Len(otpCodes) :
          /\ i < j
          /\ otpCodes[i].userId = otpCodes[j].userId
          /\ otpCodes[i].type = otpCodes[j].type
          /\ otpCodes[i].used
          /\ ~otpCodes[j].used
          /\ otpCodes[i].userId \notin {u[1] : u \in otpVerified}

\* what a verifyOTP call of `caller` with (code, type) may do
verifyOutcome(caller, code, type) ==
    /\ lastResult'.kind = "success" =>
          \E i \in 1..Len(otpCodes) :
             /\ otpCodes[i].userId = caller
             /\ otpCodes[i].type = type
             /\ otpCodes[i].code = code
             /\ otpCodes[i].used = FALSE
             /\ ~(otpCodes[i].expiresAt < now)
             /\ otpCodes'[i].used
    /\ lastResult'.message = "OTP code has expired" =>
          \E i \in 1..Len(otpCodes) :
             /\ otpCodes[i].userId = caller
             /\ otpCodes[i].type = type
             /\ otpCodes[i].code = code
             /\ otpCodes[i].expiresAt < now
             /\ ~otpCodes[i].used
             /\ otpCodes'[i].used

\* a record stays what it was, except that used may turn true
recordsKept ==
    /\ Len(otpCodes') >= Len(otpCodes)
    /\ \A i \in 1..Len(otpCodes) :
          /\ otpCodes'[i] \in {otpCodes[i], [otpCodes[i] EXCEPT !.used = TRUE]}

\* C11: a verifyOTP call succeeds only on a record of the caller, of the type
\* asked for, that is unused and not past expiresAt, and marks that record
\* used; an expired attempt marks the record used as well; a used record is
\* never unused again. Hence each record makes verifyOTP succeed at most once.
C11_SingleUse ==
    [][/\ recordsKept
       /\ \A caller \in Callers, code \in SixDigitCodes, type \in OtpTypes :
             (/\ lastResult'.fn = "verifyOTP"
              /\ lastResult'.by = caller
              /\ lastResult'.message \in {"", "OTP code has expired"}
              /\ verifyOTP(caller, code, type))
                => verifyOutcome(caller, code, type)]_vars

\* the same code is presented again after it was accepted, and is refused
C11_ReplayRefused ==
    /\ lastResult.fn = "verifyOTP"
    /\ lastResult.message = "Invalid OTP code"
    /\ Len(otpCodes) = 1
    /\ otpCodes[1].used
    /\ otpCodes[1].userId = lastResult.by
    /\ ~(otpCodes[1].expiresAt < now)
    /\ <<lastResult.by, otpCodes[1].type>> \in otpVerified

\* C15: a stored twoFactorEnabled is true only for a user who has had a
\* successful verifyOTP of type "two_factor".
C15_TwoFactorOnlyAfterOtp ==
    \A userId \in UserIds :
        userProfiles[userId].twoFactorEnabled => <<userId, "two_factor">> \in otpVerified

\* the step accepted an unused "email_verification" record of userId
emailCodeAccepted(userId) ==
    /\ lastResult'.fn = "verifyOTP"
    /\ lastResult'.by = userId
    /\ lastResult'.kind = "success"
    /\ \E i \in 1..Len(otpCodes) :
          /\ otpCodes[i].userId = userId
          /\ otpCodes[i].type = "email_verification"
          /\ ~otpCodes[i].used
          /\ otpCodes'[i].used

\* C16: emailVerified is false in a profile that has just been created, turns
\* true only in a successful verifyOTP of type "email_verification" by the
\* owning user, and never turns back to false (the steps are createUserProfile,
\* updateProfile, verifyOTP, generateOTP and the recordLoginAttempt calls of
\* handleSubmit).
C16_EmailVerifiedOnlyByOwnersOtp ==
    [][\A userId \in UserIds :
          /\ (~userProfiles[userId].exists /\ userProfiles'[userId].exists)
                => ~userProfiles'[userId].emailVerified
          /\ (~userProfiles[userId].emailVerified /\ userProfiles'[userId].emailVerified)
                => emailCodeAccepted(userId)
          /\ userProfiles[userId].emailVerified => userProfiles'[userId].emailVerified]_vars

\* a verified profile has gone through a failed login, a profile update and
\* a second createUserProfile
C16_VerifiedProfileAfterLogin ==
    /\ lastResult.fn = "createUserProfile"
    /\ lastResult.by = "u1"
    /\ userProfiles["u1"].emailVerified
    /\ userProfiles["u1"].twoFactorEnabled
    /\ userProfiles["u1"].loginAttempts > 0
    /\ ~userProfiles["u2"].emailVerified
    /\ <<"u2", "two_factor">> \in otpVerified

\* C13, first part: an account is reported locked only after at least 5
\* failed attempts recorded since its last recorded success
C13_LockedOnlyAfterFiveFailures ==
    \A email \in UserIds : isAccountLocked(email) => failedSince[email] >= LockoutThreshold

\* C13: an account is reported locked only after at least 5 failed attempts
\* since its last recorded success, and for the 15 minutes after the call that
\* brought loginAttempts to 5 or more isAccountLocked returns true.
C13_LockedForFifteenMinutes ==
    /\ C13_LockedOnlyAfterFiveFailures
    /\ \A email \in UserIds :
          (hasProfile(email) /\ now < lockedUntil[email]) => isAccountLocked(email)

\* the step is a handleSubmit that went on to signIn for the account
signInAttempted(email) ==
    /\ formEmail = email
    /\ lastResult'.fn = "handleSubmit"
    /\ lastResult'.kind \in {"signedIn", "failed"}
    /\ \E signIn \in SignInOutcomes : handleSubmit(TRUE, signIn)

\* C14: while isAccountLocked is true for an account, no step attempts a
\* sign-in for it through handleSubmit, clears its lockoutUntil or resets its
\* loginAttempts, whatever query result the form holds.
C14_LockedStaysLocked ==
    [][\A email \in UserIds :
          isAccountLocked(email) =>
             /\ ~signInAttempted(email)
             /\ userProfiles'[email].lockoutUntil >= userProfiles[email].lockoutUntil
             /\ userProfiles'[email].loginAttempts >= userProfiles[email].loginAttempts]_vars

verifies(token) == ~token.malformed /\ token.signed /\ token.active /\ ~token.expired

roleAccepted(token, requiredRole) ==
    requiredRole = "undefined" \/ (token.role # "none" /\ token.role = requiredRole)

accessOutcome(token, requiredRole) ==
    /\ lastResult'.kind = "decoded" <=> (verifies(token) /\ roleAccepted(token, requiredRole))
    /\ lastResult'.kind = "decoded" => lastResult'.rows = <<token.role>>
    /\ lastResult'.kind # "decoded" => lastResult'.kind = "error"
    /\ (verifies(token) /\ ~roleAccepted(token, requiredRole))
          => lastResult'.message = "Forbidden: Insufficient permissions"
    /\ (token.malformed \/ ~token.signed) => lastResult'.message = "Invalid token"
    /\ (~token.malformed /\ token.signed /\ token.active /\ token.expired)
          => lastResult'.message = "Token has expired"

\* C19: validateAccess returns the decoded payload exactly when the token
\* verifies and either no role is required or the payload's role equals the
\* required role; a verified token with a missing or different role fails with
\* "Forbidden: Insufficient permissions", a malformed or wrongly signed token
\* with "Invalid token", and a well signed token that is past its expiry with
\* "Token has expired".
C19_AccessOutcome ==
    [][\A token \in Tokens, requiredRole \in RequiredRoles :
          (lastResult'.fn = "validateAccess" /\ validateAccess(token, requiredRole))
             => accessOutcome(token, requiredRole)]_vars

\* a verified token was refused for its role
C19_RoleRefused ==
    /\ lastResult.fn = "validateAccess"
    /\ lastResult.kind = "error"
    /\ lastResult.message = "Forbidden: Insufficient permissions"

====
